---- MODULE Spec2Model ----
(***************************************************************************)
(* A model of src/adultbrain.py: the AdultBrain analysis session.  A       *)
(* session owns a 3-D label volume (stack), an optional voxel scale, a     *)
(* region catalog (a dict object, initially a copy of the class attribute  *)
(* DEFAULT_REGION_LUT) and the cached result of the last compute_volumes.  *)
(*                                                                         *)
(* Representation of Python values:                                        *)
(*   - Optional[T]: None is the empty sequence, a value x is <<x>>; the    *)
(*     voxel scale, a non-empty tuple, is kept as the tuple itself.        *)
(*   - a float64 voxel value v is kept as the integer 2*v (halves), so     *)
(*     that the fractional values a float volume may hold are in the       *)
(*     model and the cast to int64 is a real truncation.                   *)
(*   - a scale component is a whole-valued float, kept as its value; all   *)
(*     products in the model are then exact in float64.                    *)
(*   - a dict is a function on a finite set of integer keys; dict objects  *)
(*     live in the heap `dicts` and are held by reference.                 *)
(*   - an ndarray is [shape, data], data in C (row-major) order.           *)
(***************************************************************************)
EXTENDS Integers, Sequences, FiniteSets, TLC

VARIABLES
    sessions,           \* the AdultBrain objects constructed so far
    stack,              \* s -> self.stack
    _volumes_df,        \* s -> self._volumes_df (Optional)
    _volumes_series,    \* s -> self._volumes_series (Optional)
    _voxel_conversion,  \* s -> self._voxel_conversion (None or a 3-tuple)
    _region_lookup,     \* s -> reference of the dict self._region_lookup
    dicts,              \* heap of dict objects: reference -> mapping
    out,                \* the last call: operation, receiver, arguments, error, result
    last_computed       \* history: s -> table of the last successful compute_volumes

vars == <<sessions, stack, _volumes_df, _volumes_series, _voxel_conversion,
          _region_lookup, dicts, out, last_computed>>

None == << >>
Some(x) == <<x>>

Sessions == {"a", "b"}

-----------------------------------------------------------------------------
(* Bounds and input sets *)

\* number of voxels of the volumes the computation is checked on
NVox == 3
\* number of lines of a label file
MaxLines == 1

\* float64 voxel values, in halves: 0.0, 1.0, 1.5, 199.0
VoxelValues == {0, 2, 3, 398}

\* all 1 x 1 x NVox volumes over VoxelValues
ComputeStacks == { [shape |-> <<1, 1, NVox>>, data |-> d] : d \in [1..NVox -> VoxelValues] }

\* the volume of the session whose calls are interleaved: [[[0.0, 1.5, 1.0]]]
ScenarioStacks ==
    { [shape |-> <<1, 1, 3>>, data |-> <<0, 3, 2>>] }

\* volumes handed to the constructor when several sessions are built:
\* one 3-D volume and one 2-D array, which the constructor refuses
SessionStacks ==
    { [shape |-> <<1, 1, 1>>, data |-> <<2>>],
      [shape |-> <<1, 1>>, data |-> <<2>>] }

\* arguments of the voxel_conversion setter: (1.0, 2.0), (2.0, 1.0, 1.0),
\* (1.0, 2.0, 3.0), (1.0, 1.0, 1.0, 1.0)
Ratios == { <<1, 2>>, <<2, 1, 1>>, <<1, 2, 3>>, <<1, 1, 1, 1>> }

EntryKeys == {1, 199}
EntryNames == {"X"}
\* the lut arguments of set_region_lookup: every dict over EntryKeys
Entries == UNION { [K -> EntryNames] : K \in SUBSET EntryKeys }

SortKeys == {"region_id", "measure", "name"}

-----------------------------------------------------------------------------
(* Sequences *)

Reverse(seq) == [i \in 1..Len(seq) |-> seq[Len(seq) + 1 - i]]

\* the elements of seq at the positions where keep is TRUE, in order
RECURSIVE Compress(_, _)
Compress(seq, keep) ==
    IF seq = << >> THEN << >>
    ELSE (IF Head(keep) THEN <<Head(seq)>> ELSE << >>) \o Compress(Tail(seq), Tail(keep))

RECURSIVE Prod(_)
Prod(seq) == IF seq = << >> THEN 1 ELSE Head(seq) * Prod(Tail(seq))

RECURSIVE Sum(_)
Sum(seq) == IF seq = << >> THEN 0 ELSE Head(seq) + Sum(Tail(seq))

\* insert x in the ascending sequence srt
RECURSIVE Insert(_, _)
Insert(x, srt) ==
    IF srt = << >> THEN <<x>>
    ELSE IF x < Head(srt) THEN <<x>> \o srt
    ELSE <<Head(srt)>> \o Insert(x, Tail(srt))

RECURSIVE SortAsc(_)
SortAsc(seq) == IF seq = << >> THEN << >> ELSE Insert(Head(seq), SortAsc(Tail(seq)))

\* stable argsort: the positions of keys in ascending key order, equal keys
\* in ascending position order (what argsort(kind="mergesort") returns)
RECURSIVE InsertIdx(_, _, _)
InsertIdx(i, idx, keys) ==
    IF idx = << >> THEN <<i>>
    ELSE IF keys[i] <= keys[Head(idx)] THEN <<i>> \o idx
    ELSE <<Head(idx)>> \o InsertIdx(i, Tail(idx), keys)

RECURSIVE ArgSortFrom(_, _)
ArgSortFrom(i, keys) ==
    IF i > Len(keys) THEN << >>
    ELSE InsertIdx(i, ArgSortFrom(i + 1, keys), keys)

ArgSortStable(keys) == ArgSortFrom(1, keys)

-----------------------------------------------------------------------------
(* The region catalog *)

\* the class attribute DEFAULT_REGION_LUT, restricted to the ids 0..2 (the
\* ids of the table that the volumes and updates of the model mention; the
\* table names 0..198 and 900..904, and no id 199)
DEFAULT_REGION_LUT ==
    (0 :> "Clear Label") @@
    (1 :> "A (anterior thalamic nucleus)") @@
    (2 :> "AC (anterior cerebellar tract)")

\* reference of the dict object bound to the class attribute
DefaultRef == "DEFAULT_REGION_LUT"

DictRefs == {DefaultRef} \cup Sessions

\* dict.update(other): other's entries are set in d, the rest of d is kept
DictUpdate(d, other) ==
    [k \in (DOMAIN d) \cup (DOMAIN other) |-> IF k \in DOMAIN other THEN other[k] ELSE d[k]]

\* dict.get(k, default)
DictGet(d, k, default) == IF k \in DOMAIN d THEN d[k] ELSE default

\* {int(k): str(v) for k, v in lut.items()}; lut is a Dict[int, str], on
\* which int() and str() return their argument
Cleaned(lut) == [k \in DOMAIN lut |-> lut[k]]

\* mutant: on a merge the existing names win over the new ones
set_region_lookup_keep_old(heap, ref, fresh, lut, merge) ==
    LET cleaned == Cleaned(lut) IN
    IF merge
    THEN [dicts |-> [heap EXCEPT ![ref] = DictUpdate(cleaned, @)], ref |-> ref]
    ELSE [dicts |-> [heap EXCEPT ![fresh] = cleaned], ref |-> fresh]

\* set_region_lookup on the heap: ref is self._region_lookup, fresh the
\* reference the new dict `cleaned` gets.  Result: the heap and
\* self._region_lookup after the call.
set_region_lookup(heap, ref, fresh, lut, merge) ==
    LET cleaned == Cleaned(lut) IN
    IF merge
    THEN [dicts |-> [heap EXCEPT ![ref] = DictUpdate(@, cleaned)], ref |-> ref]
    ELSE [dicts |-> [heap EXCEPT ![fresh] = cleaned], ref |-> fresh]

\* the mapping a session reads its region names from, now and after a step
Catalog(s) == dicts[_region_lookup[s]]
CatalogNext(s) == dicts'[_region_lookup'[s]]

(* ITK-SNAP label files.  A stripped line is [hash, left, quoted]: whether it
   starts with '#', the whitespace-separated tokens before the first '"'
   (s.split('"')[0].split()), and the text between the first two quotes
   (None when the line has no '"').  A token is [int, val]: whether int()
   parses it, and its value. *)
Tok(n) == [int |-> TRUE, val |-> n]
Word == [int |-> FALSE, val |-> 0]

Lines ==
    { [hash |-> TRUE,  left |-> <<Tok(1)>>, quoted |-> Some("X")],                  \* # 1 "X"
      [hash |-> FALSE, left |-> <<Tok(0), Tok(0)>>, quoted |-> Some("Clear Label")], \* 0 0 "Clear Label"
      [hash |-> FALSE, left |-> <<Tok(1), Tok(255)>>, quoted |-> Some("X")],         \* 1 255 "X"
      [hash |-> FALSE, left |-> <<Word, Tok(1)>>, quoted |-> Some("X")],             \* IDX 1 "X"
      [hash |-> FALSE, left |-> <<Tok(199), Tok(0)>>, quoted |-> None] }             \* 199 0

LabelFiles == UNION { [1..n -> Lines] : n \in 0..MaxLines }

\* one iteration of the loop over the lines of the file
ParseLine(lut, line, keep_zero) ==
    IF line.hash \/ (line.left = << >> /\ line.quoted = None) THEN lut
    ELSE IF line.quoted = None THEN lut
    ELSE IF line.left = << >> \/ ~line.left[1].int THEN lut
    ELSE IF line.left[1].val = 0 /\ ~keep_zero THEN lut
    ELSE DictUpdate(lut, line.left[1].val :> line.quoted[1])

RECURSIVE ParseLines(_, _, _)
ParseLines(lut, lines, keep_zero) ==
    IF lines = << >> THEN lut
    ELSE ParseLines(ParseLine(lut, Head(lines), keep_zero), Tail(lines), keep_zero)

-----------------------------------------------------------------------------
(* The volume *)

\* ndarray.astype(np.int64) of a float64 value (in halves): truncation
\* toward zero
AsTypeInt64(h) == IF h >= 0 THEN h \div 2 ELSE -((-h) \div 2)

\* stack.astype(np.int64), flattened as np.unique flattens it
IntLabels(stk) == [i \in 1..Len(stk.data) |-> AsTypeInt64(stk.data[i])]

\* np.unique(ar, return_counts=True): the sorted distinct values and the
\* length of each run of the sorted array
NpUnique(ar) ==
    LET n == Len(ar)
        srt == SortAsc(ar)
        starts == Compress([i \in 1..n |-> i],
                           [i \in 1..n |-> IF i = 1 THEN TRUE ELSE srt[i] # srt[i - 1]])
        m == Len(starts)
    IN  [labels |-> [j \in 1..m |-> srt[starts[j]]],
         counts |-> [j \in 1..m |-> (IF j < m THEN starts[j + 1] ELSE n + 1) - starts[j]]]

\* the property region_labels
region_labels(stk) == NpUnique(IntLabels(stk)).labels

\* the property dimensions
dimensions(stk) == stk.shape

\* float(r) of a float
ToFloat(r) == r

\* mutant: only tuples shorter than 3 are refused
voxel_conversion_setter_lt(old, ratios) ==
    IF Len(ratios) < 3
    THEN [err |-> "ValueError", value |-> old]
    ELSE [err |-> "ok", value |-> [i \in 1..Len(ratios) |-> ToFloat(ratios[i])]]

\* the voxel_conversion setter: the error it raises and the value stored
voxel_conversion_setter(old, ratios) ==
    IF Len(ratios) # 3
    THEN [err |-> "ValueError", value |-> old]
    ELSE [err |-> "ok", value |-> [i \in 1..Len(ratios) |-> ToFloat(ratios[i])]]

-----------------------------------------------------------------------------
(* compute_volumes and write_regions *)

\* repr of a whole-valued float, and of a tuple of floats
FloatRepr(x) == ToString(x) \o ".0"

RECURSIVE JoinReprs(_)
JoinReprs(t) ==
    IF Len(t) = 1 THEN FloatRepr(t[1])
    ELSE FloatRepr(Head(t)) \o ", " \o JoinReprs(Tail(t))

TupleRepr(t) == "(" \o JoinReprs(t) \o ")"

\* mutant: the test of include_zero inverted
MaskZero_inverted(labels, counts, include_zero) ==
    IF ~include_zero THEN [labels |-> labels, counts |-> counts]
    ELSE LET mask == [i \in 1..Len(labels) |-> labels[i] # 0]
         IN  [labels |-> Compress(labels, mask), counts |-> Compress(counts, mask)]

\* mutant: the mask applied to labels only, counts cut to the same length
MaskZero_misaligned(labels, counts, include_zero) ==
    IF include_zero THEN [labels |-> labels, counts |-> counts]
    ELSE LET mask == [i \in 1..Len(labels) |-> labels[i] # 0]
             kept == Compress(labels, mask)
         IN  [labels |-> kept, counts |-> SubSeq(counts, 1, Len(kept))]

\* if not include_zero: mask = labels != 0; labels, counts = labels[mask], counts[mask]
MaskZero(labels, counts, include_zero) ==
    IF include_zero THEN [labels |-> labels, counts |-> counts]
    ELSE LET mask == [i \in 1..Len(labels) |-> labels[i] # 0]
         IN  [labels |-> Compress(labels, mask), counts |-> Compress(counts, mask)]

\* mutant: the sum of the components in place of their product
VoxelVolume_sum(voxel_conversion) == Sum(voxel_conversion)

\* float(np.prod(self.voxel_conversion))
VoxelVolume(voxel_conversion) == Prod(voxel_conversion)

\* the measures, their dtype and the name of their column
Measures(counts, voxel_conversion) ==
    IF voxel_conversion # None
    THEN [values |-> [i \in 1..Len(counts) |-> counts[i] * VoxelVolume(voxel_conversion)],
          dtype |-> "float64",
          col |-> "Volume (voxel_size=" \o TupleRepr(voxel_conversion) \o ")"]
    ELSE [values |-> counts, dtype |-> "int64", col |-> "Voxels"]

\* mutant: the name read from the class default table
Lookup_default(region_lookup, r) == DictGet(DEFAULT_REGION_LUT, r, "Region " \o ToString(r))

\* self._region_lookup.get(int(r), f"Region {int(r)}")
Lookup(region_lookup, r) == DictGet(region_lookup, r, "Region " \o ToString(r))

\* mutant: a descending sort taken as the reverse of the ascending one
sort_values_reversed(rows, by, ascending) ==
    LET n == Len(rows)
        keys == [i \in 1..n |-> rows[i][by]]
        order == ArgSortStable(keys)
        indexer == IF ascending THEN order ELSE Reverse(order)
    IN  [j \in 1..n |-> rows[indexer[j]]]

\* DataFrame.sort_values(by, ascending=ascending, kind="mergesort")
\* .reset_index(drop=True), on the rows: pandas sorts a descending column by
\* reversing it, taking the stable ascending argsort, and reversing the result
sort_values(rows, by, ascending) ==
    LET n == Len(rows)
        keys == [i \in 1..n |-> rows[i][by]]
        pos == [i \in 1..n |-> i]
        items == IF ascending THEN keys ELSE Reverse(keys)
        idx == IF ascending THEN pos ELSE Reverse(pos)
        order == ArgSortStable(items)
        indexer0 == [j \in 1..n |-> idx[order[j]]]
        indexer == IF ascending THEN indexer0 ELSE Reverse(indexer0)
    IN  [j \in 1..n |-> rows[indexer[j]]]

\* the table before it is sorted, and the series
Frame(labels, region_lookup, m) ==
    [columns |-> <<"region_id", "region_label", "measure">>,
     dtype |-> m.dtype,
     rows |-> [i \in 1..Len(labels) |->
                 [region_id |-> labels[i],
                  region_label |-> Lookup(region_lookup, labels[i]),
                  measure |-> m.values[i]]]]

Series(labels, m) ==
    [name |-> m.col,
     dtype |-> m.dtype,
     index |-> [i \in 1..Len(labels) |-> "Region " \o ToString(labels[i])],
     values |-> m.values]

\* the object a session is, as its methods read it
Self(s) ==
    [stack |-> stack[s],
     _volumes_df |-> _volumes_df[s],
     _volumes_series |-> _volumes_series[s],
     _voxel_conversion |-> _voxel_conversion[s],
     _region_lookup |-> Catalog(s)]

\* mutant: the table is cached before sort_by is checked
compute_volumes_cache_first(self, include_zero, as_dataframe, sort_by, ascending) ==
    LET u == NpUnique(IntLabels(self.stack))
        kept == MaskZero(u.labels, u.counts, include_zero)
        m == Measures(kept.counts, self._voxel_conversion)
        df0 == Frame(kept.labels, self._region_lookup, m)
    IN  IF sort_by \notin {"region_id", "measure"}
        THEN [_volumes_df |-> Some(df0),
              _volumes_series |-> self._volumes_series,
              ret |-> None, err |-> "ValueError"]
        ELSE LET df == [columns |-> <<"region_id", "region_label", m.col>>,
                        dtype |-> m.dtype,
                        rows |-> sort_values(df0.rows, sort_by, ascending)]
                 series == Series(kept.labels, m)
             IN  [_volumes_df |-> Some(df),
                  _volumes_series |-> Some(series),
                  ret |-> Some(IF as_dataframe THEN df ELSE series),
                  err |-> "ok"]

\* mutant: the cache is cleared when the call starts
compute_volumes_reset_first(self, include_zero, as_dataframe, sort_by, ascending) ==
    LET u == NpUnique(IntLabels(self.stack))
        kept == MaskZero(u.labels, u.counts, include_zero)
        m == Measures(kept.counts, self._voxel_conversion)
        df0 == Frame(kept.labels, self._region_lookup, m)
    IN  IF sort_by \notin {"region_id", "measure"}
        THEN [_volumes_df |-> None,
              _volumes_series |-> None,
              ret |-> None, err |-> "ValueError"]
        ELSE LET df == [columns |-> <<"region_id", "region_label", m.col>>,
                        dtype |-> m.dtype,
                        rows |-> sort_values(df0.rows, sort_by, ascending)]
                 series == Series(kept.labels, m)
             IN  [_volumes_df |-> Some(df),
                  _volumes_series |-> Some(series),
                  ret |-> Some(IF as_dataframe THEN df ELSE series),
                  err |-> "ok"]

\* compute_volumes: the two cached attributes after the call, the value
\* returned and the error raised
compute_volumes(self, include_zero, as_dataframe, sort_by, ascending) ==
    LET u == NpUnique(IntLabels(self.stack))
        kept == MaskZero(u.labels, u.counts, include_zero)
        m == Measures(kept.counts, self._voxel_conversion)
        df0 == Frame(kept.labels, self._region_lookup, m)
    IN  IF sort_by \notin {"region_id", "measure"}
        THEN [_volumes_df |-> self._volumes_df,
              _volumes_series |-> self._volumes_series,
              ret |-> None, err |-> "ValueError"]
        ELSE LET df == [columns |-> <<"region_id", "region_label", m.col>>,
                        dtype |-> m.dtype,
                        rows |-> sort_values(df0.rows, sort_by, ascending)]
                 series == Series(kept.labels, m)
             IN  [_volumes_df |-> Some(df),
                  _volumes_series |-> Some(series),
                  ret |-> Some(IF as_dataframe THEN df ELSE series),
                  err |-> "ok"]

\* DataFrame.to_csv(path, index=False): the header and one line per row
to_csv(df) ==
    [header |-> df.columns,
     lines |-> [i \in 1..Len(df.rows) |->
                  <<ToString(df.rows[i].region_id),
                    df.rows[i].region_label,
                    IF df.dtype = "float64" THEN FloatRepr(df.rows[i].measure)
                    ELSE ToString(df.rows[i].measure)>>]]

\* write_regions: the error raised and the text written to the file
write_regions(self) ==
    IF self._volumes_df = None
    THEN [err |-> "RuntimeError", ret |-> None]
    ELSE [err |-> "ok", ret |-> Some(to_csv(self._volumes_df[1]))]

-----------------------------------------------------------------------------
(* Construction *)

\* mutant: no copy, the new reference is the source object itself
dict_copy_alias(heap, src, fresh) == [dicts |-> heap, ref |-> src]

\* dict(src): a new dict object, at reference fresh, with the entries of src
dict_copy(heap, src, fresh) ==
    [dicts |-> [heap EXCEPT ![fresh] = heap[src]], ref |-> fresh]

\* __init__, lines 238-241: self._region_lookup = dict(self.DEFAULT_REGION_LUT),
\* then set_region_lookup(region_lookup) when region_lookup is truthy (None
\* and the empty dict are both the empty mapping here, and both falsy)
init_region_lookup(heap, s, region_lookup) ==
    LET c == dict_copy(heap, DefaultRef, s) IN
    IF region_lookup # << >>
    THEN set_region_lookup(c.dicts, c.ref, s, region_lookup, TRUE)
    ELSE c

NoStack == [shape |-> << >>, data |-> << >>]

Call(op, s, args, err, ret) == [op |-> op, self |-> s, args |-> args, err |-> err, ret |-> ret]

\* no session constructed yet
NoSessions ==
    /\ sessions = {}
    /\ stack = [s \in Sessions |-> NoStack]
    /\ _volumes_df = [s \in Sessions |-> None]
    /\ _volumes_series = [s \in Sessions |-> None]
    /\ _voxel_conversion = [s \in Sessions |-> None]
    /\ _region_lookup = [s \in Sessions |-> DefaultRef]
    /\ dicts = [r \in DictRefs |-> IF r = DefaultRef THEN DEFAULT_REGION_LUT ELSE << >>]
    /\ last_computed = [s \in Sessions |-> None]
    /\ out = Call("import", "", << >>, "ok", None)

\* AdultBrain(stk, region_lookup) bound to s
Construct ==
    \E s \in Sessions \ sessions, stk \in SessionStacks, region_lookup \in Entries :
        IF Len(stk.shape) # 3
        THEN /\ out' = Call("__init__", s, [stack |-> stk, region_lookup |-> region_lookup],
                            "ValueError", None)
             /\ UNCHANGED <<sessions, stack, _volumes_df, _volumes_series,
                            _voxel_conversion, _region_lookup, dicts, last_computed>>
        ELSE LET r == init_region_lookup(dicts, s, region_lookup) IN
             /\ sessions' = sessions \cup {s}
             /\ stack' = [stack EXCEPT ![s] = stk]
             /\ _volumes_df' = [_volumes_df EXCEPT ![s] = None]
             /\ _volumes_series' = [_volumes_series EXCEPT ![s] = None]
             /\ _voxel_conversion' = [_voxel_conversion EXCEPT ![s] = None]
             /\ dicts' = r.dicts
             /\ _region_lookup' = [_region_lookup EXCEPT ![s] = r.ref]
             /\ last_computed' = [last_computed EXCEPT ![s] = None]
             /\ out' = Call("__init__", s, [stack |-> stk, region_lookup |-> region_lookup],
                            "ok", None)

\* the state after AdultBrain(stk) bound to "a", as from_file builds it
Constructed(stk) ==
    LET r == init_region_lookup([q \in DictRefs |-> IF q = DefaultRef THEN DEFAULT_REGION_LUT
                                                    ELSE << >>], "a", << >>) IN
    /\ sessions = {"a"}
    /\ stack = [s \in Sessions |-> IF s = "a" THEN stk ELSE NoStack]
    /\ _volumes_df = [s \in Sessions |-> None]
    /\ _volumes_series = [s \in Sessions |-> None]
    /\ _voxel_conversion = [s \in Sessions |-> None]
    /\ _region_lookup = [s \in Sessions |-> IF s = "a" THEN r.ref ELSE DefaultRef]
    /\ dicts = r.dicts
    /\ last_computed = [s \in Sessions |-> None]
    /\ out = Call("__init__", "a", [stack |-> stk, region_lookup |-> << >>], "ok", None)

-----------------------------------------------------------------------------
(* The calls on a session *)

\* s.voxel_conversion = ratios
SetScale(s) ==
    \E ratios \in Ratios :
        LET r == voxel_conversion_setter(_voxel_conversion[s], ratios) IN
        /\ _voxel_conversion' = [_voxel_conversion EXCEPT ![s] = r.value]
        /\ out' = Call("voxel_conversion", s, [ratios |-> ratios], r.err, None)
        /\ UNCHANGED <<sessions, stack, _volumes_df, _volumes_series, _region_lookup,
                       dicts, last_computed>>

\* s.set_region_lookup(lut, merge)
SetRegionLookup(s) ==
    \E lut \in Entries, merge \in BOOLEAN :
        LET r == set_region_lookup(dicts, _region_lookup[s], s, lut, merge) IN
        /\ dicts' = r.dicts
        /\ _region_lookup' = [_region_lookup EXCEPT ![s] = r.ref]
        /\ out' = Call("set_region_lookup", s, [lut |-> lut, merge |-> merge], "ok", None)
        /\ UNCHANGED <<sessions, stack, _volumes_df, _volumes_series, _voxel_conversion,
                       last_computed>>

\* s.load_region_lookup_from_itksnap(filepath, keep_zero, merge), the file
\* at filepath holding the lines `file` (the file is read, not passed: the
\* call's record keeps the two flags)
LoadRegionLookup(s) ==
    \E file \in LabelFiles, keep_zero \in BOOLEAN, merge \in BOOLEAN :
        LET lut == ParseLines(<< >>, file, keep_zero)
            r == set_region_lookup(dicts, _region_lookup[s], s, lut, merge) IN
        /\ dicts' = r.dicts
        /\ _region_lookup' = [_region_lookup EXCEPT ![s] = r.ref]
        /\ out' = Call("load_region_lookup_from_itksnap", s,
                       [keep_zero |-> keep_zero, merge |-> merge], "ok", None)
        /\ UNCHANGED <<sessions, stack, _volumes_df, _volumes_series, _voxel_conversion,
                       last_computed>>

\* s.compute_volumes(include_zero, as_dataframe, sort_by, ascending)
ComputeVolumes(s) ==
    \E include_zero \in BOOLEAN, as_dataframe \in BOOLEAN,
       sort_by \in SortKeys, ascending \in BOOLEAN :
        LET r == compute_volumes(Self(s), include_zero, as_dataframe, sort_by, ascending) IN
        /\ _volumes_df' = [_volumes_df EXCEPT ![s] = r._volumes_df]
        /\ _volumes_series' = [_volumes_series EXCEPT ![s] = r._volumes_series]
        /\ last_computed' = [last_computed EXCEPT ![s] =
                               IF r.err = "ok" THEN r._volumes_df ELSE @]
        /\ out' = Call("compute_volumes", s,
                       [include_zero |-> include_zero, as_dataframe |-> as_dataframe,
                        sort_by |-> sort_by, ascending |-> ascending], r.err, r.ret)
        /\ UNCHANGED <<sessions, stack, _voxel_conversion, _region_lookup, dicts>>

\* s.write_regions(output_file_path)
WriteRegions(s) ==
    LET r == write_regions(Self(s)) IN
        /\ out' = Call("write_regions", s, << >>, r.err, r.ret)
        /\ UNCHANGED <<sessions, stack, _volumes_df, _volumes_series, _voxel_conversion,
                       _region_lookup, dicts, last_computed>>

-----------------------------------------------------------------------------
(* Specifications *)

\* one session, built from a file, then any sequence of calls on it
Init == \E stk \in ScenarioStacks : Constructed(stk)

Next ==
    \/ \E s \in sessions : SetScale(s)
    \/ \E s \in sessions : SetRegionLookup(s)
    \/ \E s \in sessions : ComputeVolumes(s)
    \/ \E s \in sessions : WriteRegions(s)

Spec == Init /\ [][Next]_vars

\* the scales and catalogs a session can hold when compute_volumes is called
Scales ==
    {None} \cup { voxel_conversion_setter(None, r).value :
                    r \in {q \in Ratios : voxel_conversion_setter(None, q).err = "ok"} }

Catalogs ==
    { DictUpdate(DEFAULT_REGION_LUT, Cleaned(e)) : e \in Entries }
        \cup { Cleaned(e) : e \in Entries }

\* one session over any volume of NVox voxels, with any scale and catalog it
\* can have been given, then one call of compute_volumes
InitCompute ==
    \E stk \in ComputeStacks, vc \in Scales, cat \in Catalogs :
        /\ sessions = {"a"}
        /\ stack = [s \in Sessions |-> IF s = "a" THEN stk ELSE NoStack]
        /\ _volumes_df = [s \in Sessions |-> None]
        /\ _volumes_series = [s \in Sessions |-> None]
        /\ _voxel_conversion = [s \in Sessions |-> IF s = "a" THEN vc ELSE None]
        /\ _region_lookup = [s \in Sessions |-> IF s = "a" THEN "a" ELSE DefaultRef]
        /\ dicts = [r \in DictRefs |-> IF r = DefaultRef THEN DEFAULT_REGION_LUT
                                       ELSE IF r = "a" THEN cat ELSE << >>]
        /\ last_computed = [s \in Sessions |-> None]
        /\ out = Call("setup", "a", << >>, "ok", None)

NextCompute == out.op = "setup" /\ ComputeVolumes("a")

SpecCompute == InitCompute /\ [][NextCompute]_vars

\* two sessions, each constructed at any time, and the calls that read or
\* change a catalog, made on one of them while the other is observed
Callers == {"a"}

NextSessions ==
    \/ Construct
    \/ \E s \in sessions \cap Callers : SetRegionLookup(s)
    \/ \E s \in sessions \cap Callers : LoadRegionLookup(s)
    \/ \E s \in sessions \cap Callers : ComputeVolumes(s)

SpecSessions == NoSessions /\ [][NextSessions]_vars

-----------------------------------------------------------------------------
(* Properties *)

\* the session and arguments of the last call, when it was compute_volumes
Computed == out.op = "compute_volumes" /\ out.err = "ok"
Table == _volumes_df[out.self][1]
Volume == stack[out.self].data

\* the float value h/2 truncates toward zero to the integer r
TruncatesTo(h, r) ==
    IF r > 0 THEN 2 * r <= h /\ h < 2 * r + 2
    ELSE IF r < 0 THEN 2 * r - 2 < h /\ h <= 2 * r
    ELSE -2 < h /\ h < 2

\* number of positions of the volume whose value truncates to r, and whose
\* value is r
CountTruncated(data, r) == Cardinality({i \in 1..Len(data) : TruncatesTo(data[i], r)})
CountEqual(data, r) == Cardinality({i \in 1..Len(data) : data[i] = 2 * r})

\* sx*sy*sz of the scale in force, 1 when none is set
ScaleFactor(vc) == IF vc = None THEN 1 ELSE vc[1] * vc[2] * vc[3]

\* the integers that some voxel value truncates to
IdUniverse == UNION { {(h \div 2) - 1, h \div 2, (h \div 2) + 1} : h \in VoxelValues }
Present(data) == {r \in IdUniverse : \E i \in 1..Len(data) : TruncatesTo(data[i], r)}

\* C1 as stated: every row's measure is the number of positions of the volume
\* EQUAL to the row's id, times sx*sy*sz of the scale in force (1 when no
\* scale is set).
C1_MeasureCountsEqualPositions ==
    Computed =>
        \A j \in 1..Len(Table.rows) :
            Table.rows[j].measure =
                CountEqual(Volume, Table.rows[j].region_id)
                    * ScaleFactor(_voxel_conversion[out.self])

\* C1 amended: every row's measure is the number of positions of the volume
\* whose value, truncated toward zero to an integer, is the row's id, times
\* sx*sy*sz of the scale in force (1 when no scale is set).
C1_MeasureCountsTruncatedPositions ==
    Computed =>
        \A j \in 1..Len(Table.rows) :
            Table.rows[j].measure =
                CountTruncated(Volume, Table.rows[j].region_id)
                    * ScaleFactor(_voxel_conversion[out.self])

C1_Witness ==
    /\ Computed
    /\ _voxel_conversion[out.self] = <<2, 1, 1>>
    /\ \E j \in 1..Len(Table.rows) :
          /\ Table.rows[j].measure = 4
          /\ CountEqual(Volume, Table.rows[j].region_id) = 1

\* C2: after a successful compute, every region id that appears in the volume
\* (the truncation of some voxel value, which is what region_labels lists) and
\* is not the excluded background is the id of exactly one row, and every
\* row's id appears in the volume.
C2_RowsAreThePresentIds ==
    Computed =>
        LET ids == Present(Volume)
            wanted == IF out.args.include_zero THEN ids ELSE ids \ {0}
            rl == region_labels(stack[out.self])
        IN  /\ {rl[i] : i \in 1..Len(rl)} = ids
            /\ \A r \in wanted :
                  Cardinality({j \in 1..Len(Table.rows) : Table.rows[j].region_id = r}) = 1
            /\ \A j \in 1..Len(Table.rows) : Table.rows[j].region_id \in ids

C2_Witness ==
    /\ Computed
    /\ ~out.args.include_zero
    /\ Present(Volume) = {0, 1, 199}
    /\ Len(Table.rows) = 2

\* C3: the table of compute(include_zero=false) is the table of
\* compute(include_zero=true), same volume, scale, catalog and sort arguments,
\* with the row of id 0 removed: same columns, the other rows unchanged and in
\* the same relative order.
WithZero ==
    compute_volumes(Self(out.self), TRUE, out.args.as_dataframe,
                    out.args.sort_by, out.args.ascending)._volumes_df[1]

C3_ExcludingZeroRemovesOneRow ==
    (Computed /\ ~out.args.include_zero) =>
        /\ Table.columns = WithZero.columns
        /\ Table.rows = SelectSeq(WithZero.rows, LAMBDA r : r.region_id # 0)
        /\ Len(WithZero.rows) - Len(Table.rows) \in {0, 1}

C3_Witness ==
    /\ Computed
    /\ ~out.args.include_zero
    /\ out.args.sort_by = "measure"
    /\ ~out.args.ascending
    /\ Len(WithZero.rows) = 3
    /\ Len(Table.rows) = 2
    /\ WithZero.rows[1].region_id = 0

\* C4: sort_by=region_id ascending gives non-decreasing ids; sort_by=measure
\* descending gives non-increasing measures; in both directions of a measure
\* sort, rows of equal measure are in ascending-id order.
C4_Sorted ==
    Computed =>
        \A j \in 1..Len(Table.rows), k \in 1..Len(Table.rows) :
            j < k =>
                /\ (out.args.sort_by = "region_id" /\ out.args.ascending)
                      => Table.rows[j].region_id <= Table.rows[k].region_id
                /\ (out.args.sort_by = "measure" /\ ~out.args.ascending)
                      => Table.rows[j].measure >= Table.rows[k].measure
                /\ (out.args.sort_by = "measure"
                      /\ Table.rows[j].measure = Table.rows[k].measure)
                      => Table.rows[j].region_id < Table.rows[k].region_id

C4_Witness ==
    /\ Computed
    /\ out.args.sort_by = "measure"
    /\ ~out.args.ascending
    /\ Len(Table.rows) = 3
    /\ Table.rows[1].measure = Table.rows[2].measure
    /\ Table.rows[1].region_id < Table.rows[2].region_id

\* C5: write_regions fails (RuntimeError) exactly when no compute_volumes has
\* succeeded on the session before; otherwise it writes the table of the last
\* successful compute_volumes: its column names as the header, and one line
\* per row, in the row order, whatever was called since.
C5_WriteSerializesLastTable ==
    out.op = "write_regions" =>
        LET last == last_computed[out.self] IN
        /\ out.err = "RuntimeError" <=> last = None
        /\ out.err = "RuntimeError" => out.ret = None
        /\ last # None =>
              /\ out.err = "ok"
              /\ out.ret # None
              /\ out.ret[1].header = last[1].columns
              /\ Len(out.ret[1].lines) = Len(last[1].rows)
              /\ \A i \in 1..Len(last[1].rows) :
                    /\ out.ret[1].lines[i][1] = ToString(last[1].rows[i].region_id)
                    /\ out.ret[1].lines[i][2] = last[1].rows[i].region_label
                    /\ out.ret[1].lines[i][3] \in
                          {ToString(last[1].rows[i].measure),
                           ToString(last[1].rows[i].measure) \o ".0"}

\* a write after a compute that was followed by a change of scale and by a
\* change of the catalog: the file holds the old column and the old names
C5_Witness ==
    /\ out.op = "write_regions"
    /\ out.err = "ok"
    /\ out.ret[1].header[3] = "Voxels"
    /\ _voxel_conversion[out.self] # None
    /\ Len(out.ret[1].lines) = 2
    /\ out.ret[1].lines[2][2] = "A (anterior thalamic nucleus)"
    /\ Catalog(out.self) = (199 :> "X")

\* C6: a compute_volumes call whose sort_by is neither 'region_id' nor
\* 'measure' raises ValueError, returns nothing, and leaves the cached table
\* (and series) as they were before the call.
C6_BadSortKeyLeavesCache ==
    [][ (out'.op = "compute_volumes" /\ out'.args.sort_by \notin {"region_id", "measure"})
          => /\ out'.err = "ValueError"
             /\ out'.ret = None
             /\ _volumes_df' = _volumes_df
             /\ _volumes_series' = _volumes_series ]_vars

C6_Witness ==
    /\ out.op = "compute_volumes"
    /\ out.args.sort_by = "name"
    /\ out.err = "ValueError"
    /\ _volumes_df[out.self] # None
    /\ _volumes_df[out.self][1].columns[3] = "Voxels"
    /\ _voxel_conversion[out.self] # None

\* C7: the voxel_conversion setter called with a tuple of length other than 3
\* raises ValueError and leaves the stored scale (or None) unchanged; called
\* with 3 components it stores these three values, over any previous scale.
C7_ScaleSetter ==
    [][ out'.op = "voxel_conversion" =>
          LET s == out'.self
              ratios == out'.args.ratios
          IN  IF Len(ratios) # 3
              THEN /\ out'.err = "ValueError"
                   /\ _voxel_conversion'[s] = _voxel_conversion[s]
              ELSE /\ out'.err = "ok"
                   /\ Len(_voxel_conversion'[s]) = 3
                   /\ \A i \in 1..3 : _voxel_conversion'[s][i] = ratios[i] ]_vars

C7_Witness ==
    /\ out.op = "voxel_conversion"
    /\ Len(out.args.ratios) = 4
    /\ out.err = "ValueError"
    /\ _voxel_conversion[out.self] = <<1, 2, 3>>

\* C8: set_region_lookup(lut, merge=True) leaves the catalog equal to the
\* previous mapping overlaid with lut (every key of lut maps to lut's name,
\* every other key keeps its name, no other key); merge=False leaves the
\* catalog equal to lut.
C8_UpdateMergesOrReplaces ==
    [][ out'.op = "set_region_lookup" =>
          LET s == out'.self
              lut == out'.args.lut
              old == Catalog(s)
              new == CatalogNext(s)
          IN  /\ \A k \in DOMAIN lut : k \in DOMAIN new /\ new[k] = lut[k]
              /\ IF out'.args.merge
                 THEN /\ DOMAIN new = (DOMAIN old) \cup (DOMAIN lut)
                      /\ \A k \in (DOMAIN old) \ (DOMAIN lut) : new[k] = old[k]
                 ELSE DOMAIN new = DOMAIN lut ]_vars

\* a merge that collided on id 1, added id 199 and kept ids 0 and 2
C8_Witness ==
    /\ out.op = "set_region_lookup"
    /\ out.args.merge
    /\ out.args.lut = (1 :> "X" @@ 199 :> "X")
    /\ Catalog(out.self) = (0 :> "Clear Label") @@ (1 :> "X") @@
                           (2 :> "AC (anterior cerebellar tract)") @@ (199 :> "X")

\* C9: after a compute_volumes with a recognized sort_by, the call has not
\* failed and each row's region_label is the name the session's catalog gives
\* the row's id at that call, or "Region <id>" when the catalog has no such id.
C9_LabelsFromCatalog ==
    (out.op = "compute_volumes" /\ out.args.sort_by \in {"region_id", "measure"}) =>
        /\ out.err = "ok"
        /\ _volumes_df[out.self] # None
        /\ \A j \in 1..Len(Table.rows) :
              LET id == Table.rows[j].region_id IN
              IF id \in DOMAIN Catalog(out.self)
              THEN Table.rows[j].region_label = Catalog(out.self)[id]
              ELSE Table.rows[j].region_label = "Region " \o ToString(id)

\* a table with a name set by an update and a fallback name
C9_Witness ==
    /\ Computed
    /\ Catalog(out.self) = (1 :> "X")
    /\ Len(Table.rows) = 2
    /\ Table.rows[1].region_label = "Region 0"
    /\ Table.rows[2].region_label = "X"

\* C10: the class attribute DEFAULT_REGION_LUT is never changed; a session
\* just constructed has the default mapping overlaid with the constructor's
\* region_lookup; no call changes the catalog of a session other than the one
\* it is made on; compute_volumes does not change the catalog.
C10_CatalogIsPrivate ==
    [][ /\ dicts'[DefaultRef] = DEFAULT_REGION_LUT
        /\ \A s \in sessions' \ sessions :
              CatalogNext(s) = DictUpdate(DEFAULT_REGION_LUT, out'.args.region_lookup)
        /\ \A t \in sessions : t # out'.self => CatalogNext(t) = Catalog(t)
        /\ out'.op = "compute_volumes" => CatalogNext(out'.self) = Catalog(out'.self) ]_vars

\* both sessions built, the observed one with its own entry, and the other
\* one's catalog replaced from a label file
C10_Witness ==
    /\ sessions = {"a", "b"}
    /\ out.op = "load_region_lookup_from_itksnap"
    /\ out.self = "a"
    /\ Catalog("a") = (1 :> "X")
    /\ Catalog("b") = DictUpdate(DEFAULT_REGION_LUT, 199 :> "X")

====
